---------------------------- MODULE Spec2Model ----------------------------
(***************************************************************************)
(* A model of steam_wishlist.py: one run of the script is a linear         *)
(* pipeline (validate arguments, load or fetch the wishlist, fetch prices, *)
(* save the snapshot, load the curated lists, filter, output).             *)
(*                                                                         *)
(* Python strings whose characters matter (argument values, game ids,      *)
(* tags, sort values) are sequences of one-character strings; field names  *)
(* and file paths, which the script only compares for equality, are TLA+   *)
(* strings.  A JSON value is a record [t, v] tagged with its Python type.  *)
(* A dict whose order matters (the wishlist) is a sequence of [k, v]       *)
(* items in insertion order; an entry (a dict of fields) is a function     *)
(* from field names to JSON values.                                        *)
(***************************************************************************)
EXTENDS Integers, Sequences, FiniteSets, TLC

VARIABLES
    pc,            \* position of the run in the script
    args,          \* argparse namespace (line 195)
    wanted,        \* wanted_discount, wanted_price, wanted_deck_rating
    wishlist,      \* the wishlist dict (line 204), later the filtered one
    page,          \* page counter of the fetch loop (line 220)
    i,             \* start index of the next price batch (line 256)
    filter_lists,  \* curated lists loaded so far (line 287)
    disk,          \* content of the snapshot file
    io,            \* requests, file accesses and stages of this run, in order
    stdout,        \* what the run has written to standard output
    exitcode,      \* -1 while running, then the process exit code
    run,           \* 1 for the first invocation, 2 for the re-invocation
    handed         \* the wishlist each run handed to the filter loop

vars == <<pc, args, wanted, wishlist, page, i, filter_lists, disk, io,
          stdout, exitcode, run, handed>>

----------------------------------------------------------------------------
(* Bounds of the model *)

MaxArgLen == 3
MaxPages == 2
MaxFlags == 2
MaxFilterGames == 2
MaxSortGames == 3
MaxPriceGames == 201

----------------------------------------------------------------------------
(* Characters and Python string operations *)

Digits == <<"0", "1", "2", "3", "4", "5", "6", "7", "8", "9">>

UpperSeq == <<"A", "B", "C", "D", "E", "F", "G", "H", "I", "J", "K", "L", "M",
              "N", "O", "P", "Q", "R", "S", "T", "U", "V", "W", "X", "Y", "Z">>

LowerSeq == <<"a", "b", "c", "d", "e", "f", "g", "h", "i", "j", "k", "l", "m",
              "n", "o", "p", "q", "r", "s", "t", "u", "v", "w", "x", "y", "z">>

\* The characters of the model in code point order.
CodeOrder == <<"\n", " ", ",", "-">> \o Digits \o <<":">> \o UpperSeq \o LowerSeq

IndexOf(seq, c) == CHOOSE n \in 1..Len(seq) : seq[n] = c

InSeq(seq, c) == \E n \in 1..Len(seq) : seq[n] = c

Ord(c) == IndexOf(CodeOrder, c)

IsDigitChar(c) == InSeq(Digits, c)

DigitVal(c) == IndexOf(Digits, c) - 1

\* str.isalpha on one character
IsAlpha(c) == InSeq(UpperSeq, c) \/ InSeq(LowerSeq, c)

\* str.lower on one character
LowerChar(c) == IF InSeq(UpperSeq, c) THEN LowerSeq[IndexOf(UpperSeq, c)] ELSE c

\* str.lower
Lower(s) == [n \in 1..Len(s) |-> LowerChar(s[n])]

\* str.isdigit: non-empty and every character a digit
IsDigitStr(s) == Len(s) > 0 /\ \A n \in 1..Len(s) : IsDigitChar(s[n])

RECURSIVE ParseNat(_)
ParseNat(s) ==
    IF Len(s) = 0 THEN 0
    ELSE 10 * ParseNat(SubSeq(s, 1, Len(s) - 1)) + DigitVal(s[Len(s)])

\* int(str): an optional sign and at least one digit; anything else is a
\* ValueError (ok = FALSE).  Surrounding blanks and underscores, which int()
\* also accepts, are outside the argument alphabet of the model.
IntOfStr(s) ==
    IF IsDigitStr(s) THEN [ok |-> TRUE, v |-> ParseNat(s)]
    ELSE IF Len(s) > 1 /\ s[1] = "-" /\ IsDigitStr(Tail(s))
         THEN [ok |-> TRUE, v |-> 0 - ParseNat(Tail(s))]
    ELSE IF Len(s) > 1 /\ s[1] = "+" /\ IsDigitStr(Tail(s))
         THEN [ok |-> TRUE, v |-> ParseNat(Tail(s))]
    ELSE [ok |-> FALSE, v |-> 0]

RECURSIVE StrOfNat(_)
StrOfNat(n) ==
    IF n < 10 THEN <<Digits[n + 1]>>
    ELSE StrOfNat(n \div 10) \o <<Digits[(n % 10) + 1]>>

\* str(int)
StrOfInt(n) == IF n < 0 THEN <<"-">> \o StrOfNat(0 - n) ELSE StrOfNat(n)

\* a < b for Python strings: lexicographic by code point
RECURSIVE StrLess(_, _)
StrLess(a, b) ==
    IF Len(b) = 0 THEN FALSE
    ELSE IF Len(a) = 0 THEN TRUE
    ELSE IF a[1] = b[1] THEN StrLess(Tail(a), Tail(b))
    ELSE Ord(a[1]) < Ord(b[1])

\* bytes.split(sep): the pieces between occurrences of sep, empty ones kept
RECURSIVE SplitAcc(_, _, _)
SplitAcc(s, sep, cur) ==
    IF Len(s) = 0 THEN <<cur>>
    ELSE IF s[1] = sep THEN <<cur>> \o SplitAcc(Tail(s), sep, <<>>)
    ELSE SplitAcc(Tail(s), sep, Append(cur, s[1]))

Split(s, sep) == SplitAcc(s, sep, <<>>)

\* sep.join(list)
RECURSIVE Join(_, _)
Join(sep, list) ==
    IF Len(list) = 0 THEN <<>>
    ELSE IF Len(list) = 1 THEN list[1]
    ELSE list[1] \o <<sep>> \o Join(sep, Tail(list))

Range(seq) == {seq[n] : n \in 1..Len(seq)}

----------------------------------------------------------------------------
(* JSON values as Python sees them *)

\* t is the Python type; n, b, s or l holds the value, the others are unused
JValue(t, n, b, s, l) == [t |-> t, n |-> n, b |-> b, s |-> s, l |-> l]

JInt(n) == JValue("int", n, FALSE, <<>>, <<>>)
JStr(s) == JValue("str", 0, FALSE, s, <<>>)
JBool(b) == JValue("bool", 0, b, <<>>, <<>>)
JList(l) == JValue("list", 0, FALSE, <<>>, l)
JNone == JValue("none", 0, FALSE, <<>>, <<>>)

\* truth value of a Python object
Truthy(j) ==
    CASE j.t = "int" -> j.n # 0
      [] j.t = "str" -> Len(j.s) > 0
      [] j.t = "bool" -> j.b
      [] j.t = "list" -> Len(j.l) > 0
      [] j.t = "none" -> FALSE

\* int(value): ok = FALSE stands for the ValueError or TypeError raised
PyInt(j) ==
    CASE j.t = "int" -> [ok |-> TRUE, v |-> j.n]
      [] j.t = "bool" -> [ok |-> TRUE, v |-> IF j.b THEN 1 ELSE 0]
      [] j.t = "str" -> IntOfStr(j.s)
      [] j.t = "list" -> [ok |-> FALSE, v |-> 0]
      [] j.t = "none" -> [ok |-> FALSE, v |-> 0]

\* str(value) for the scalar values
PyStr(j) ==
    CASE j.t = "int" -> StrOfInt(j.n)
      [] j.t = "str" -> j.s
      [] j.t = "bool" -> IF j.b THEN <<"T", "r", "u", "e">>
                                ELSE <<"F", "a", "l", "s", "e">>
      [] j.t = "none" -> <<"N", "o", "n", "e">>

\* dict.get(key, default) on an entry
Get(fields, key, default) ==
    IF key \in DOMAIN fields THEN fields[key] ELSE default

----------------------------------------------------------------------------
(* Ordered dicts: sequences of [k, v] items in insertion order *)

Keys(d) == [n \in 1..Len(d) |-> d[n].k]

KeySet(d) == {d[n].k : n \in 1..Len(d)}

Lookup(d, key) == d[CHOOSE n \in 1..Len(d) : d[n].k = key].v

\* d[key] = value: an existing key keeps its place, a new key goes last
DictSet(d, key, value) ==
    IF key \in KeySet(d)
    THEN [n \in 1..Len(d) |-> IF d[n].k = key THEN [k |-> key, v |-> value]
                                             ELSE d[n]]
    ELSE Append(d, [k |-> key, v |-> value])

\* for k, v in src.items(): d[k] = v
RECURSIVE Update(_, _)
Update(d, src) ==
    IF Len(src) = 0 THEN d
    ELSE Update(DictSet(d, src[1].k, src[1].v), Tail(src))

\* json.dump and json.load of the wishlist: an object whose members are the
\* items in order
JsonDump(d) == [json |-> "object", members |-> d]
JsonLoad(f) == f.members

----------------------------------------------------------------------------
(* Command line arguments *)

\* an option that was not supplied (argparse leaves it None)
None == <<"None">>

\* no path: --save / --load not supplied (falsy, like None)
NoPath == ""

SnapshotPath == "wishlist.json"

\* the namespace argparse returns when no option is supplied
DefaultArgs ==
    [userid |-> None, csv |-> FALSE, fields |-> <<>>, sort |-> "",
     num |-> FALSE, reverse |-> FALSE, save |-> NoPath, load |-> NoPath,
     platform |-> {}, free |-> FALSE, no_free |-> FALSE, demo |-> FALSE,
     achievements |-> FALSE, cards |-> FALSE, released |-> FALSE,
     no_released |-> FALSE, early |-> FALSE, no_early |-> FALSE,
     type |-> {}, tag |-> {}, deck |-> None, cc |-> "", refresh |-> FALSE,
     discount |-> None, price |-> None]

\* truth value of an optional string argument
ArgGiven(value) == value # None /\ Len(value) > 0

\* integer() called without max (max = None); `not max` also holds for 0
NoMax == 0

MaxDiscount == 100
MaxDeck == 3

\* integer(value, name, max): exit = TRUE stands for sys.exit(1)
integer(value, max) ==
    IF value = None THEN [exit |-> FALSE, v |-> 0]
    ELSE LET parsed == IntOfStr(value)
         IN IF parsed.ok /\ (max = NoMax \/ parsed.v <= max)
            THEN [exit |-> FALSE, v |-> parsed.v]
            ELSE [exit |-> TRUE, v |-> 0]

NoWanted == [discount |-> 0, price |-> 0, deck |-> 0]

\* what integer() leaves in wanted_discount, wanted_price, wanted_deck_rating
WantedOf(a) ==
    [discount |-> integer(a.discount, MaxDiscount).v,
     price |-> integer(a.price, NoMax).v,
     deck |-> integer(a.deck, MaxDeck).v]

ArgsRejected(a) ==
    \/ integer(a.discount, MaxDiscount).exit
    \/ integer(a.price, NoMax).exit
    \/ integer(a.deck, MaxDeck).exit

\* an uncaught exception or sys.exit(1): the run ends with exit code 1
Fatal ==
    /\ pc' = "exited"
    /\ exitcode' = 1

\* lines 197-199
Validate ==
    /\ pc = "validate"
    /\ IF ArgsRejected(args)
       THEN /\ Fatal
            /\ UNCHANGED wanted
       ELSE /\ wanted' = WantedOf(args)
            /\ pc' = "loader"
            /\ UNCHANGED exitcode
    /\ UNCHANGED <<args, wishlist, page, i, filter_lists, disk, io, stdout,
                   run, handed>>

----------------------------------------------------------------------------
(* The events of a run, in order: every request, every file access, and the
   entry into the filter loop and the output stage. *)

Event(kind, n, ids, resp) == [kind |-> kind, page |-> n, ids |-> ids, resp |-> resp]

NoResp == [kind |-> "none", body |-> <<>>]

EventsOf(kind) == SelectSeq(io, LAMBDA e : e.kind = kind)

----------------------------------------------------------------------------
(* Wishlist Loader: lines 206-244 *)

\* lines 206-208: open() raises when the file is absent
Load ==
    /\ pc = "loader"
    /\ args.load # NoPath
    /\ io' = Append(io, Event("load", 0, <<>>, NoResp))
    /\ IF disk = <<>>
       THEN /\ Fatal
            /\ UNCHANGED wishlist
       ELSE /\ wishlist' = JsonLoad(disk[1])
            /\ pc' = "prices"
            /\ UNCHANGED exitcode
    /\ UNCHANGED <<args, wanted, page, i, filter_lists, disk, stdout, run,
                   handed>>

\* lines 210-213
MissingUserid ==
    /\ pc = "loader"
    /\ args.load = NoPath
    /\ args.userid = None
    /\ Fatal
    /\ UNCHANGED <<args, wanted, wishlist, page, i, filter_lists, disk, io,
                   stdout, run, handed>>

\* a response of the wishlist endpoint: a JSON object (kind "dict", possibly
\* empty), another JSON value (kind "other"), or an HTTP error (kind "error")
DictResp(body) == [kind |-> "dict", body |-> body]
OtherResp == [kind |-> "other", body |-> <<>>]
ErrorResp == [kind |-> "error", body |-> <<>>]

\* line 234: not isinstance(json_obj, dict) or not json_obj
StopsLoop(resp) == resp.kind # "dict" \/ Len(resp.body) = 0

\* lines 221-244, one iteration of the loop for the response resp
FetchStep_FailureStops(resp) ==
    /\ page' = page + 1
    /\ io' = Append(io, Event("wishlist", page + 1, <<>>, resp))
    /\ IF resp.kind = "error"
       THEN IF page + 1 = 0
            THEN Fatal /\ UNCHANGED wishlist
            ELSE pc' = "prices" /\ UNCHANGED <<wishlist, exitcode>>
       ELSE IF StopsLoop(resp)
       THEN pc' = "prices" /\ UNCHANGED <<wishlist, exitcode>>
       ELSE /\ wishlist' = Update(wishlist, resp.body)
            /\ UNCHANGED <<pc, exitcode>>

FetchStep_NoBreakOnOther(resp) ==
    /\ page' = page + 1
    /\ io' = Append(io, Event("wishlist", page + 1, <<>>, resp))
    /\ IF resp.kind = "error"
       THEN Fatal /\ UNCHANGED wishlist
       ELSE IF resp.kind = "dict" /\ Len(resp.body) = 0
       THEN pc' = "prices" /\ UNCHANGED <<wishlist, exitcode>>
       ELSE /\ wishlist' = Update(wishlist, resp.body)
            /\ UNCHANGED <<pc, exitcode>>

FetchStep(resp) ==
    /\ page' = page + 1
    /\ io' = Append(io, Event("wishlist", page + 1, <<>>, resp))
    /\ IF resp.kind = "error"
       THEN Fatal /\ UNCHANGED wishlist
       ELSE IF StopsLoop(resp)
       THEN pc' = "prices" /\ UNCHANGED <<wishlist, exitcode>>
       ELSE /\ wishlist' = Update(wishlist, resp.body)
            /\ UNCHANGED <<pc, exitcode>>

----------------------------------------------------------------------------
(* Price Enricher: lines 250-269 *)

BATCH_SIZE == 100

Fetched == <<"f", "e", "t", "c", "h", "e", "d">>

\* line 267: "data" in obj and "price_overview" in obj["data"]
HasPriceData(obj) == "data" \in DOMAIN obj /\ "price_overview" \in DOMAIN obj.data

\* lines 266-269 for one item of the response
MarkEntry_OnlyWithData(fields, obj) ==
    IF HasPriceData(obj)
    THEN obj.data.price_overview @@ ("_price" :> JStr(Fetched)) @@ fields
    ELSE fields

MarkEntry(fields, obj) ==
    LET marked == ("_price" :> JStr(Fetched)) @@ fields
    IN IF HasPriceData(obj) THEN obj.data.price_overview @@ marked ELSE marked

\* lines 265-269: the response is keyed by ids of the wishlist
ApplyPrices(w, body) ==
    [n \in 1..Len(w) |->
        IF w[n].k \in KeySet(body)
        THEN [k |-> w[n].k, v |-> MarkEntry(w[n].v, Lookup(body, w[n].k))]
        ELSE w[n]]

Min(a, b) == IF a < b THEN a ELSE b

\* line 259: gameids[i : i + BATCH_SIZE]
Batch(gameids, start) == SubSeq(gameids, start + 1, Min(start + BATCH_SIZE, Len(gameids)))

\* lines 250-252; list(wishlist.values())[0] raises IndexError on an empty
\* wishlist, and is evaluated only when --load is given
PriceCondRaises == args.cc # "" /\ args.load # NoPath /\ Len(wishlist) = 0

PriceCondHolds ==
    /\ args.cc # ""
    /\ \/ args.load = NoPath
       \/ "_price" \notin DOMAIN wishlist[1].v
       \/ args.refresh

PriceCond ==
    /\ pc = "prices"
    /\ IF PriceCondRaises
       THEN /\ Fatal
            /\ io' = Append(io, Event("cond", 0, <<>>, [kind |-> "raised", body |-> <<>>]))
       ELSE IF PriceCondHolds
       THEN /\ pc' = IF Len(wishlist) = 0 THEN "save" ELSE "batch"
            /\ io' = Append(io, Event("cond", 0, <<>>, [kind |-> "true", body |-> <<>>]))
            /\ UNCHANGED exitcode
       ELSE /\ pc' = "save"
            /\ io' = Append(io, Event("cond", 0, <<>>, [kind |-> "false", body |-> <<>>]))
            /\ UNCHANGED exitcode
    /\ i' = 0
    /\ UNCHANGED <<args, wanted, wishlist, page, filter_lists, disk, stdout,
                   run, handed>>

\* lines 256-269, one iteration of the loop for the response resp
PriceStep(resp) ==
    /\ io' = Append(io, Event("price", 0, Batch(Keys(wishlist), i), resp))
    /\ IF resp.kind = "error"
       THEN /\ Fatal
            /\ UNCHANGED <<wishlist, i>>
       ELSE /\ wishlist' = ApplyPrices(wishlist, resp.body)
            /\ i' = i + BATCH_SIZE
            /\ pc' = IF i + BATCH_SIZE < Len(wishlist) THEN "batch" ELSE "save"
            /\ UNCHANGED exitcode

----------------------------------------------------------------------------
(* Snapshot Writer: lines 272-274 *)

Save ==
    /\ pc = "save"
    /\ IF args.save # NoPath
       THEN /\ disk' = <<JsonDump(wishlist)>>
            /\ io' = Append(io, Event("save", 0, <<>>, NoResp))
       ELSE UNCHANGED <<disk, io>>
    /\ pc' = "filter"
    /\ filter_lists' = <<>>
    /\ UNCHANGED <<args, wanted, wishlist, page, i, stdout, exitcode, run,
                   handed>>

----------------------------------------------------------------------------
(* Curated lists and Filter Engine: lines 280-353 *)

\* line 284
clean_str(s) == Lower(SelectSeq(s, IsAlpha))

\* lines 288-294
to_load(a) ==
    (IF a.demo THEN <<"demos">> ELSE <<>>)
    \o (IF a.cards THEN <<"cards">> ELSE <<>>)
    \o (IF a.achievements THEN <<"achievements">> ELSE <<>>)

\* line 299: the set of the lines of the response body
ListOf(body) == Range(Split(body, "\n"))

\* lines 295-299, one iteration of the loop for the response resp
LoadListStep(resp) ==
    /\ io' = Append(io, Event("list", 0, <<to_load(args)[Len(filter_lists) + 1]>>, resp))
    /\ IF resp.kind = "error"
       THEN /\ Fatal
            /\ UNCHANGED filter_lists
       ELSE /\ filter_lists' = Append(filter_lists, ListOf(resp.body))
            /\ UNCHANGED <<pc, exitcode>>

Platforms == <<"linux", "win", "mac">>

\* lines 304-308
PlatformTest(a, fields) ==
    \E n \in 1..Len(Platforms) :
        Truthy(Get(fields, Platforms[n], JNone)) /\ Platforms[n] \in a.platform

\* line 311
TypeTest(a, fields) == Lower(Get(fields, "type", JStr(<<>>)).s) \in a.type

\* lines 304-329: add_game after the tests that never raise
BasicTests_TypeOverrides(a, fields) ==
    LET p == IF a.platform # {} THEN PlatformTest(a, fields) ELSE TRUE
        t == IF a.type # {} THEN TypeTest(a, fields) ELSE p
        f == IF a.free /\ ~Truthy(Get(fields, "is_free_game", JBool(FALSE)))
             THEN FALSE ELSE t
        nf == IF a.no_free /\ Truthy(Get(fields, "is_free_game", JBool(FALSE)))
              THEN FALSE ELSE f
        r == IF a.released /\ Truthy(Get(fields, "prerelease", JBool(FALSE)))
             THEN FALSE ELSE nf
        nr == IF a.no_released /\ ~Truthy(Get(fields, "prerelease", JBool(FALSE)))
              THEN FALSE ELSE r
        e == IF a.early /\ ~Truthy(Get(fields, "early_access", JBool(FALSE)))
             THEN FALSE ELSE nr
    IN IF a.no_early /\ Truthy(Get(fields, "early_access", JBool(FALSE)))
       THEN FALSE ELSE e

BasicTests(a, fields) ==
    LET p == IF a.platform # {} THEN PlatformTest(a, fields) ELSE TRUE
        t == IF a.type # {} THEN p /\ TypeTest(a, fields) ELSE p
        f == IF a.free /\ ~Truthy(Get(fields, "is_free_game", JBool(FALSE)))
             THEN FALSE ELSE t
        nf == IF a.no_free /\ Truthy(Get(fields, "is_free_game", JBool(FALSE)))
              THEN FALSE ELSE f
        r == IF a.released /\ Truthy(Get(fields, "prerelease", JBool(FALSE)))
             THEN FALSE ELSE nf
        nr == IF a.no_released /\ ~Truthy(Get(fields, "prerelease", JBool(FALSE)))
              THEN FALSE ELSE r
        e == IF a.early /\ ~Truthy(Get(fields, "early_access", JBool(FALSE)))
             THEN FALSE ELSE nr
    IN IF a.no_early /\ Truthy(Get(fields, "early_access", JBool(FALSE)))
       THEN FALSE ELSE e

\* line 333: fields["tags"] raises KeyError when the field is absent
TagsRaises_DefaultEmpty(fields) == FALSE

TagsRaises(fields) == "tags" \notin DOMAIN fields

\* lines 333-336
TagTest(a, fields) ==
    LET tags == {clean_str(tag) : tag \in Range(Get(fields, "tags", JList(<<>>)).l)}
    IN \E wanted_tag \in a.tag : clean_str(wanted_tag) \in tags

\* lines 331-351 for one item: err when a lookup or a conversion raises,
\* else add = add_game
FilterEntry(a, w, lists, gameid, fields) ==
    LET a0 == BasicTests(a, fields)
        tagged == a0 /\ a.tag # {}
        e1 == tagged /\ TagsRaises(fields)
        a1 == IF tagged /\ ~e1 THEN TagTest(a, fields) ELSE a0
        d == PyInt(Get(fields, "discount_percent", JInt(0)))
        byDiscount == ~e1 /\ a1 /\ ArgGiven(a.discount)
        e2 == e1 \/ (byDiscount /\ ~d.ok)
        a2 == IF byDiscount /\ d.ok THEN d.v >= w.discount ELSE a1
        f == PyInt(Get(fields, "final", JInt(0)))
        byPrice == ~e2 /\ a2 /\ ArgGiven(a.price)
        e3 == e2 \/ (byPrice /\ ~f.ok)
        a3 == IF byPrice /\ f.ok THEN f.v <= w.price ELSE a2
        c == PyInt(Get(fields, "deck_compat", JInt(0)))
        byDeck == ~e3 /\ a3 /\ ArgGiven(a.deck)
        e4 == e3 \/ (byDeck /\ ~c.ok)
        a4 == IF byDeck /\ c.ok THEN c.v >= w.deck ELSE a3
    IN [err |-> e4,
        add |-> a4 /\ \A n \in 1..Len(lists) : gameid \in lists[n]]

\* lines 301-353: the items kept, in the order of the wishlist
Filtered(a, w, lists, d) ==
    SelectSeq(d, LAMBDA item : FilterEntry(a, w, lists, item.k, item.v).add)

FilterRaises(a, w, lists, d) ==
    \E n \in 1..Len(d) : FilterEntry(a, w, lists, d[n].k, d[n].v).err

Filter_SavesAfterwards ==
    /\ pc = "filter"
    /\ Len(filter_lists) = Len(to_load(args))
    /\ io' = Append(io, Event("filter", 0, <<>>, NoResp))
    /\ handed' = Append(handed, [run |-> run, wishlist |-> wishlist])
    /\ IF FilterRaises(args, wanted, filter_lists, wishlist)
       THEN /\ Fatal
            /\ UNCHANGED <<wishlist, disk>>
       ELSE /\ wishlist' = Filtered(args, wanted, filter_lists, wishlist)
            /\ disk' = IF args.save # NoPath
                       THEN <<JsonDump(Filtered(args, wanted, filter_lists, wishlist))>>
                       ELSE disk
            /\ pc' = "output"
            /\ UNCHANGED exitcode
    /\ UNCHANGED <<args, wanted, page, i, filter_lists, stdout, run>>

Filter ==
    /\ pc = "filter"
    /\ Len(filter_lists) = Len(to_load(args))
    /\ io' = Append(io, Event("filter", 0, <<>>, NoResp))
    /\ handed' = Append(handed, [run |-> run, wishlist |-> wishlist])
    /\ IF FilterRaises(args, wanted, filter_lists, wishlist)
       THEN /\ Fatal
            /\ UNCHANGED wishlist
       ELSE /\ wishlist' = Filtered(args, wanted, filter_lists, wishlist)
            /\ pc' = "output"
            /\ UNCHANGED exitcode
    /\ UNCHANGED <<args, wanted, page, i, filter_lists, disk, stdout, run>>

----------------------------------------------------------------------------
(* Field Projector, Sorter and Serializer: lines 358-421 *)

\* lines 358-360 with args.fields already split at the commas; None when no
\* field is requested
wanted_fields(a) == a.fields

StorePrefix == <<"https://store.steampowered.com/app/">>

Link(gameid) == StorePrefix \o gameid

\* lines 366-375
OutputFields(a, gameid, fields) ==
    LET kept == [f \in {g \in DOMAIN fields :
                           Len(wanted_fields(a)) = 0 \/ InSeq(wanted_fields(a), g)}
                    |-> fields[f]]
    IN IF InSeq(wanted_fields(a), "link")
       THEN ("link" :> JStr(Link(gameid))) @@ kept
       ELSE kept

\* lines 362-377
OutputJson ==
    /\ pc = "output"
    /\ ~args.csv
    /\ stdout' = <<JsonDump([n \in 1..Len(wishlist) |->
                      [k |-> wishlist[n].k,
                       v |-> OutputFields(args, wishlist[n].k, wishlist[n].v)]])>>
    /\ pc' = "exited"
    /\ exitcode' = 0
    /\ UNCHANGED <<args, wanted, wishlist, page, i, filter_lists, disk, io,
                   run, handed>>

\* lines 394-403: the key of one item; err when int() raises
sorter(a, item) ==
    LET value == IF a.sort = "" THEN Get(item.v, "added", JNone)
                 ELSE IF a.sort \in {"id", "gameid"} THEN JStr(item.k)
                 ELSE Get(item.v, a.sort, IF a.num THEN JInt(0) ELSE JStr(<<>>))
    IN IF a.num \/ IsDigitStr(PyStr(value))
       THEN [err |-> ~PyInt(value).ok, t |-> "int", n |-> PyInt(value).v, s |-> <<>>]
       ELSE [err |-> FALSE, t |-> "str", n |-> 0, s |-> PyStr(value)]

\* x < y for two keys of the same type
KeyLess(x, y) == IF x.t = "int" THEN x.n < y.n ELSE StrLess(x.s, y.s)

\* whether item x has to come before item y
Before(a, x, y) ==
    IF a.reverse THEN KeyLess(sorter(a, y), sorter(a, x))
    ELSE KeyLess(sorter(a, x), sorter(a, y))

\* the place of item in an ordered list: after every item it is not before
RECURSIVE Insert(_, _, _)
Insert(a, done, item) ==
    IF Len(done) = 0 THEN <<item>>
    ELSE IF Before(a, item, done[1]) THEN <<item>> \o done
    ELSE <<done[1]>> \o Insert(a, Tail(done), item)

\* line 405: sorted(wishlist.items(), key=sorter, reverse=args.reverse), stable
RECURSIVE SortInto(_, _, _)
SortInto(a, done, items) ==
    IF Len(items) = 0 THEN done
    ELSE SortInto(a, Insert(a, done, items[1]), Tail(items))

Sorted(a, items) == SortInto(a, <<>>, items)

\* line 405: a key raises, or an int key meets a str key (TypeError)
SortRaises(a, items) ==
    \/ \E n \in 1..Len(items) : sorter(a, items[n]).err
    \/ \E m, n \in 1..Len(items) : sorter(a, items[m]).t # sorter(a, items[n]).t

\* lines 408-420
Cell(field, gameid, fields) ==
    IF field \in {"id", "gameid"} THEN JStr(gameid)
    ELSE IF field = "released"
    THEN JStr(IF Truthy(Get(fields, "prerelease", JBool(FALSE))) THEN <<>> ELSE <<"1">>)
    ELSE IF field \in {"link", "url"} THEN JStr(Link(gameid))
    ELSE LET value == Get(fields, field, JStr(<<>>))
         IN IF value.t = "list" THEN JStr(Join(":", value.l)) ELSE value

\* lines 381-382 and 406-421
Row(a, item) ==
    LET names == IF Len(wanted_fields(a)) = 0 THEN <<"id">> ELSE wanted_fields(a)
    IN [n \in 1..Len(names) |-> Cell(names[n], item.k, item.v)]

\* lines 379-421
OutputCsv ==
    /\ pc = "output"
    /\ args.csv
    /\ IF SortRaises(args, wishlist)
       THEN /\ Fatal
            /\ UNCHANGED stdout
       ELSE /\ stdout' = LET items == Sorted(args, wishlist)
                         IN [n \in 1..Len(items) |-> Row(args, items[n])]
            /\ pc' = "exited"
            /\ exitcode' = 0
    /\ UNCHANGED <<args, wanted, wishlist, page, i, filter_lists, disk, io,
                   run, handed>>

----------------------------------------------------------------------------
(* A second invocation: the run that saved is followed by a run that loads
   the same file with otherwise the same flags. *)

Rerun ==
    /\ pc = "exited"
    /\ run = 1
    /\ Len(EventsOf("save")) > 0
    /\ run' = 2
    /\ args' = [args EXCEPT !.save = NoPath, !.load = args.save]
    /\ pc' = "validate"
    /\ wanted' = NoWanted
    /\ wishlist' = <<>>
    /\ page' = -1
    /\ i' = 0
    /\ filter_lists' = <<>>
    /\ io' = <<>>
    /\ stdout' = <<>>
    /\ exitcode' = -1
    /\ UNCHANGED <<disk, handed>>

----------------------------------------------------------------------------
(* The environment: what the endpoints answer and what the disk holds *)

G10 == <<"1", "0">>
G20 == <<"2", "0">>
G9 == <<"9">>

EntryGame ==
    [name |-> JStr(<<"F", "o", "o">>), type |-> JStr(<<"G", "a", "m", "e">>),
     is_free_game |-> JBool(FALSE), tags |-> JList(<< <<"R", "-", "P">> >>),
     added |-> JInt(5), win |-> JInt(1)]

EntryDlc ==
    [name |-> JStr(<<"B", "a", "r">>), type |-> JStr(<<"D", "L", "C">>),
     is_free_game |-> JBool(TRUE), tags |-> JList(<<>>), added |-> JInt(12),
     linux |-> JInt(1), prerelease |-> JInt(1)]

EntryDlcLater ==
    [name |-> JStr(<<"B", "a", "r">>), type |-> JStr(<<"D", "L", "C">>),
     is_free_game |-> JBool(FALSE), tags |-> JList(<< <<"r", "p">> >>),
     added |-> JInt(12), linux |-> JInt(1)]

EntryNoTags ==
    [name |-> JStr(<<"Q">>), type |-> JStr(<<"G", "a", "m", "e">>),
     is_free_game |-> JBool(FALSE), added |-> JInt(7), mac |-> JInt(1)]

PageA == <<[k |-> G10, v |-> EntryGame], [k |-> G20, v |-> EntryDlc]>>
PageB == <<[k |-> G20, v |-> EntryDlcLater], [k |-> G9, v |-> EntryNoTags]>>
PageC == <<[k |-> G9, v |-> EntryGame]>>

Pages == {PageA, PageB, PageC}

\* the wishlist endpoint answers page p; it has at most MaxPages pages
WishlistResponses(p) ==
    {ErrorResp, OtherResp, DictResp(<<>>)}
    \cup (IF p < MaxPages THEN {DictResp(body) : body \in Pages} ELSE {})

PriceOverview ==
    [final |-> JInt(999), initial |-> JInt(1999), discount_percent |-> JInt(50),
     currency |-> JStr(<<"U", "S", "D">>)]

WithPrice == [success |-> TRUE, data |-> [price_overview |-> PriceOverview]]
EmptyData == [success |-> TRUE, data |-> <<>>]
NoSuccess == [success |-> FALSE]

PricePatterns == {"none", "all", "first", "rest"}

PriceObj(pattern, n) ==
    CASE pattern = "none" -> NoSuccess
      [] pattern = "all" -> WithPrice
      [] pattern = "first" -> IF n = 1 THEN WithPrice ELSE EmptyData
      [] pattern = "rest" -> IF n = 1 THEN NoSuccess ELSE WithPrice

\* the price endpoint answers with an object keyed by the ids requested
PriceResponses(batch) ==
    {ErrorResp}
    \cup {DictResp([n \in 1..Len(batch) |-> [k |-> batch[n], v |-> PriceObj(pattern, n)]]) :
            pattern \in PricePatterns}

TextResp(body) == [kind |-> "text", body |-> body]

\* a curated list: newline-separated game ids
ListResponses ==
    {ErrorResp,
     TextResp(<<"1", "0", "\n", "2", "0", "\n">>),
     TextResp(<<"9">>)}

Marked(d) == [n \in 1..Len(d) |-> [k |-> d[n].k, v |-> MarkEntry(d[n].v, WithPrice)]]

\* snapshots an earlier run left on disk
SnapEmpty == JsonDump(<<>>)
SnapPlain == JsonDump(PageA)
SnapPriced == JsonDump(Marked(PageB))

----------------------------------------------------------------------------
(* The run of the script *)

FetchPage ==
    /\ pc = "loader"
    /\ args.load = NoPath
    /\ args.userid # None
    /\ \E resp \in WishlistResponses(page + 1) : FetchStep(resp)
    /\ UNCHANGED <<args, wanted, i, filter_lists, disk, stdout, run, handed>>

PriceBatch ==
    /\ pc = "batch"
    /\ \E resp \in PriceResponses(Batch(Keys(wishlist), i)) : PriceStep(resp)
    /\ UNCHANGED <<args, wanted, page, filter_lists, disk, stdout, run, handed>>

LoadList ==
    /\ pc = "filter"
    /\ Len(filter_lists) < Len(to_load(args))
    /\ \E resp \in ListResponses : LoadListStep(resp)
    /\ UNCHANGED <<args, wanted, wishlist, page, i, disk, stdout, run, handed>>

\* the state when the script starts with the namespace a
Start(a) ==
    /\ pc = "validate"
    /\ args = a
    /\ wanted = NoWanted
    /\ wishlist = <<>>
    /\ page = -1
    /\ i = 0
    /\ filter_lists = <<>>
    /\ io = <<>>
    /\ stdout = <<>>
    /\ exitcode = -1
    /\ run = 1
    /\ handed = <<>>

UserId == <<"7", "6">>

RunArgs ==
    {[DefaultArgs EXCEPT !.userid = u, !.load = l, !.save = sv, !.cc = c,
                         !.refresh = r, !.csv = cs, !.tag = tg, !.demo = dm] :
        u \in {None, UserId}, l \in {NoPath, SnapshotPath},
        sv \in {NoPath, SnapshotPath}, c \in {"", "us"}, r \in BOOLEAN,
        cs \in BOOLEAN, tg \in {{}, {<<"r", " ", "p">>}}, dm \in BOOLEAN}

Init ==
    /\ \E a \in RunArgs :
        /\ a.load = NoPath \/ a.save = NoPath
        /\ Start(a)
    /\ disk \in IF args.load = NoPath
                THEN {<<>>, <<SnapPlain>>}
                ELSE {<<>>, <<SnapEmpty>>, <<SnapPlain>>, <<SnapPriced>>}

Next ==
    \/ Validate
    \/ Load
    \/ MissingUserid
    \/ FetchPage
    \/ PriceCond
    \/ PriceBatch
    \/ Save
    \/ LoadList
    \/ Filter
    \/ OutputJson
    \/ OutputCsv
    \/ Rerun

Spec == Init /\ [][Next]_vars

----------------------------------------------------------------------------
(* Properties of the run *)

Last(seq) == seq[Len(seq)]

ContinuesLoop(resp) == resp.kind = "dict" /\ Len(resp.body) > 0

\* the value the pages hold for key: that of the last page with the key
MergedValue(pages, key) ==
    LET n == CHOOSE m \in 1..Len(pages) :
                 /\ key \in KeySet(pages[m])
                 /\ \A later \in (m + 1)..Len(pages) : key \notin KeySet(pages[later])
    IN Lookup(pages[n], key)

\* C3: in fetch mode the wishlist endpoint is requested for page 0, 1, 2, ...
\* in order, each once; no request follows the first response that is not a
\* non-empty mapping; when the loop stops, the wishlist holds exactly the
\* entries of the pages received before that response, a later page's value
\* replacing an earlier one's; and the loop is left exactly when such a
\* response or a failure has been received.
C3_FetchLoop ==
    LET reqs == EventsOf("wishlist")
        pages == [n \in 1..(Len(reqs) - 1) |-> reqs[n].resp.body]
    IN /\ \A n \in 1..Len(reqs) : reqs[n].page = n - 1
       /\ \A n \in 1..(Len(reqs) - 1) : ContinuesLoop(reqs[n].resp)
       /\ (args.load # NoPath \/ args.userid = None) => Len(reqs) = 0
       /\ pc = "loader" => (Len(reqs) = 0 \/ ContinuesLoop(Last(reqs).resp))
       /\ (Len(reqs) > 0 /\ ContinuesLoop(Last(reqs).resp)) => pc = "loader"
       /\ (pc = "prices" /\ args.load = NoPath) =>
            /\ Len(reqs) > 0
            /\ ~ContinuesLoop(Last(reqs).resp)
            /\ Last(reqs).resp.kind # "error"
            /\ KeySet(wishlist) = UNION {KeySet(pages[n]) : n \in 1..Len(pages)}
            /\ Cardinality(KeySet(wishlist)) = Len(wishlist)
            /\ \A n \in 1..Len(wishlist) :
                   wishlist[n].v = MergedValue(pages, wishlist[n].k)

\* two pages sharing a game id with different values were merged
C3_Witness ==
    LET reqs == EventsOf("wishlist")
    IN /\ pc = "prices"
       /\ Len(reqs) = 3
       /\ reqs[1].resp.body = PageA
       /\ reqs[2].resp.body = PageB
       /\ Lookup(wishlist, G20) = EntryDlcLater

\* C4 as claimed: a request failure on a page after the first only stops the
\* pagination loop, and the run goes on to the later stages.
C4_LaterFailureContinues ==
    (/\ Len(io) > 0
     /\ Last(io).kind = "wishlist"
     /\ Last(io).resp.kind = "error"
     /\ Last(io).page > 0) => pc # "exited"

\* C4 amended: a request failure on any page of the wishlist, the first or a
\* later one, is fatal: the run ends with exit code 1, nothing on standard
\* output, no snapshot written and no later stage run.
C4_AnyFailureFatal ==
    LET reqs == EventsOf("wishlist")
    IN (Len(reqs) > 0 /\ Last(reqs).resp.kind = "error") =>
          /\ pc = "exited"
          /\ exitcode = 1
          /\ stdout = <<>>
          /\ Last(io) = Last(reqs)

\* a failure on the third page, after two pages were collected
C4_Witness ==
    /\ Len(io) = 3
    /\ Last(io).kind = "wishlist"
    /\ Last(io).resp.kind = "error"
    /\ Last(io).page = 2
    /\ Len(wishlist) > 1
    /\ exitcode = 1

\* C5 as claimed: right after the decision of line 250, price requests are
\* about to be issued exactly when a country code is given and (the wishlist
\* was not loaded, or its first entry has no _price marker, or --refresh is
\* set); otherwise the run goes on to the next stage; in no case, the empty
\* loaded snapshot included, does the decision end the run.
C5_PriceDecision ==
    LET unmarked == Len(wishlist) = 0 \/ "_price" \notin DOMAIN wishlist[1].v
        wantsPrices == /\ args.cc # ""
                       /\ (args.load = NoPath \/ unmarked \/ args.refresh)
    IN (Len(io) > 0 /\ Last(io).kind = "cond") =>
          /\ pc # "exited"
          /\ pc = "batch" <=> (wantsPrices /\ Len(wishlist) > 0)
          /\ ~wantsPrices => pc = "save"

HandedBy(r) == SelectSeq(handed, LAMBDA h : h.run = r)

\* C7 as claimed: a run with --save F followed by a run with --load F and
\* otherwise the same flags hands the filter loop the wishlist the first run
\* handed to it, for every fetched wishlist including the empty one (a second
\* run that ends on a failed request is left aside).
C7_RoundTrip ==
    (/\ run = 2
     /\ pc = "exited"
     /\ Len(HandedBy(1)) = 1
     /\ ~(Len(io) > 0 /\ Last(io).resp.kind = "error")) =>
        /\ Len(HandedBy(2)) = 1
        /\ HandedBy(2)[1].wishlist = HandedBy(1)[1].wishlist

\* the wishlist as it was before the filter loop reduced it
Unfiltered == IF Len(HandedBy(run)) > 0 THEN HandedBy(run)[1].wishlist ELSE wishlist

PastSave ==
    \/ pc \in {"filter", "output"}
    \/ pc = "exited" /\ exitcode = 0
    \/ pc = "exited" /\ \E n \in 1..Len(io) : io[n].kind \in {"list", "filter"}

\* C8: a run with a save path that reaches the Snapshot Writer writes the
\* snapshot exactly once, after every wishlist and price request and before
\* every curated-list request and the filter loop; the snapshot is the full
\* unfiltered wishlist with its price fields, and stays so when a later stage
\* fails.
C8_SnapshotOnce ==
    LET saves == {n \in 1..Len(io) : io[n].kind = "save"}
    IN /\ Cardinality(saves) <= 1
       /\ args.save = NoPath => saves = {}
       /\ (args.save # NoPath /\ PastSave) => Cardinality(saves) = 1
       /\ \A n \in saves :
            /\ \A m \in 1..(n - 1) : io[m].kind \in {"wishlist", "cond", "price"}
            /\ \A m \in (n + 1)..Len(io) : io[m].kind \in {"list", "filter"}
            /\ disk = <<JsonDump(Unfiltered)>>
            /\ args.cc # "" =>
                 \A m \in 1..Len(disk[1].members) :
                    "_price" \in DOMAIN disk[1].members[m].v

\* the filter loop failed after a snapshot with prices was written
C8_Witness ==
    /\ run = 1
    /\ pc = "exited"
    /\ exitcode = 1
    /\ Len(EventsOf("save")) = 1
    /\ Len(EventsOf("price")) = 1
    /\ Len(EventsOf("filter")) = 1
    /\ Len(disk[1].members) = 3

----------------------------------------------------------------------------
(* Argument validation alone: every value of --discount, --price and --deck *)

ArgChars == {"-", "0", "1", "3", "4", "x"}

ArgStrings == UNION {[1..n -> ArgChars] : n \in 0..MaxArgLen}

InitArgs ==
    /\ \E opt \in {"discount", "price", "deck"}, value \in ArgStrings,
          other \in {None, <<"1">>, <<"x">>} :
          Start([DefaultArgs EXCEPT ![opt] = value, !.userid = UserId,
                                    !.deck = IF opt = "deck" THEN value ELSE other])
    /\ disk = <<>>

NextArgs == Validate \/ FetchPage

SpecArgs == InitArgs /\ [][NextArgs]_vars

\* the value is given and is not an integer of lo..hi (no upper end when
\* bounded is FALSE)
C2_Invalid(value, bounded, hi) ==
    /\ value # None
    /\ \/ ~IntOfStr(value).ok
       \/ IntOfStr(value).v < 0
       \/ bounded /\ IntOfStr(value).v > hi

\* C2 as claimed: the run exits with code 1 before any request, file access
\* or output whenever --discount is not an integer of 0..100, --price not an
\* integer >= 0 or --deck not an integer of 0..3; every value inside its
\* range is accepted.
C2_Validation ==
    LET invalid == \/ C2_Invalid(args.discount, TRUE, 100)
                   \/ C2_Invalid(args.price, FALSE, 0)
                   \/ C2_Invalid(args.deck, TRUE, 3)
    IN pc # "validate" =>
          IF invalid
          THEN pc = "exited" /\ exitcode = 1 /\ io = <<>> /\ stdout = <<>>
          ELSE \/ pc = "loader"
               \/ Len(io) > 0

----------------------------------------------------------------------------
(* The filter stage alone: wishlists of catalogue entries under every
   combination of at most MaxFlags filter options *)

FilterGame ==
    [type |-> JStr(<<"G", "a", "m", "e">>), is_free_game |-> JBool(FALSE),
     tags |-> JList(<< <<"R", "-", "P">>, <<"I", "n", "d", "i", "e">> >>),
     win |-> JInt(1), final |-> JInt(999), discount_percent |-> JInt(50),
     deck_compat |-> JInt(3)]

FilterDlc ==
    [type |-> JStr(<<"D", "L", "C">>), is_free_game |-> JBool(TRUE),
     tags |-> JList(<<>>), linux |-> JInt(1), mac |-> JInt(1),
     final |-> JInt(0), prerelease |-> JBool(TRUE)]

FilterEarly ==
    [type |-> JStr(<<"G", "a", "m", "e">>), is_free_game |-> JBool(FALSE),
     win |-> JInt(1), final |-> JInt(1999), discount_percent |-> JInt(49),
     early_access |-> JBool(TRUE), deck_compat |-> JInt(1)]

FilterBare ==
    [tags |-> JList(<< <<"I", "n", "d", "i", "e">> >>), final |-> JInt(1500),
     discount_percent |-> JInt(0), deck_compat |-> JInt(2)]

FilterMod ==
    [type |-> JStr(<<"M", "o", "d">>), is_free_game |-> JBool(TRUE),
     linux |-> JInt(0), win |-> JInt(1), prerelease |-> JBool(TRUE),
     early_access |-> JBool(TRUE)]

Catalogue == <<FilterGame, FilterDlc, FilterEarly, FilterBare, FilterMod>>

\* the n-th game id of a catalogue wishlist: "10", "20", ...
GameId(n) == StrOfNat(10 * n)

CatalogueWishlists ==
    UNION {{[n \in 1..len |-> [k |-> GameId(n), v |-> Catalogue[pick[n]]]] :
              pick \in [1..len -> 1..Len(Catalogue)]} : len \in 0..MaxFilterGames}

Settings ==
    <<[opt |-> "platform", val |-> {"linux"}],
      [opt |-> "platform", val |-> {"win", "mac"}],
      [opt |-> "type", val |-> {<<"g", "a", "m", "e">>}],
      [opt |-> "type", val |-> {<<"d", "l", "c">>, <<"m", "o", "d">>}],
      [opt |-> "free", val |-> TRUE],
      [opt |-> "no_free", val |-> TRUE],
      [opt |-> "released", val |-> TRUE],
      [opt |-> "no_released", val |-> TRUE],
      [opt |-> "early", val |-> TRUE],
      [opt |-> "no_early", val |-> TRUE],
      [opt |-> "tag", val |-> {<<"r", " ", "p">>}],
      [opt |-> "tag", val |-> {<<"i", "n", "d", "i", "e">>, <<"x">>}],
      [opt |-> "discount", val |-> <<"5", "0">>],
      [opt |-> "price", val |-> <<"1", "5", "0", "0">>],
      [opt |-> "deck", val |-> <<"2">>],
      [opt |-> "demo", val |-> TRUE],
      [opt |-> "cards", val |-> TRUE],
      [opt |-> "achievements", val |-> TRUE]>>

RECURSIVE SettingSets(_)
SettingSets(n) ==
    IF n = 0 THEN {{}}
    ELSE LET smaller == SettingSets(n - 1)
         IN smaller \cup {chosen \cup {m} : chosen \in smaller, m \in 1..Len(Settings)}

\* the namespace with the chosen settings supplied
WithSettings(chosen) ==
    [opt \in DOMAIN DefaultArgs |->
        IF \E m \in chosen : Settings[m].opt = opt
        THEN Settings[CHOOSE m \in chosen : Settings[m].opt = opt].val
        ELSE DefaultArgs[opt]]

FilterArgs ==
    {[WithSettings(chosen) EXCEPT !.load = SnapshotPath] :
        chosen \in {c \in SettingSets(MaxFlags) :
                       \A m, n \in c : Settings[m].opt = Settings[n].opt => m = n}}

\* the state of a --load run when it reaches line 280
InitFilter ==
    /\ pc = "filter"
    /\ args \in FilterArgs
    /\ wanted = WantedOf(args)
    /\ wishlist \in CatalogueWishlists
    /\ page = -1
    /\ i = 0
    /\ filter_lists = <<>>
    /\ disk = <<JsonDump(wishlist)>>
    /\ io = <<Event("load", 0, <<>>, NoResp),
              Event("cond", 0, <<>>, [kind |-> "false", body |-> <<>>])>>
    /\ stdout = <<>>
    /\ exitcode = -1
    /\ run = 1
    /\ handed = <<>>

NextFilter == LoadList \/ Filter

SpecFilter == InitFilter /\ [][NextFilter]_vars

C1_Field(fields, key) == IF key \in DOMAIN fields THEN Truthy(fields[key]) ELSE FALSE

C1_Number(fields, key) == IF key \in DOMAIN fields THEN fields[key].n ELSE 0

\* the tests from platform to no-early, each passed when its flag is absent
C1_PassesFlags(a, fields) ==
    /\ a.platform = {} \/ \E p \in a.platform : C1_Field(fields, p)
    /\ a.type = {} \/ (IF "type" \in DOMAIN fields THEN Lower(fields["type"].s) ELSE <<>>) \in a.type
    /\ a.free => C1_Field(fields, "is_free_game")
    /\ a.no_free => ~C1_Field(fields, "is_free_game")
    /\ a.released => ~C1_Field(fields, "prerelease")
    /\ a.no_released => C1_Field(fields, "prerelease")
    /\ a.early => C1_Field(fields, "early_access")
    /\ a.no_early => ~C1_Field(fields, "early_access")

\* every requested test
C1_Passes(a, lists, gameid, fields) ==
    /\ C1_PassesFlags(a, fields)
    /\ a.tag = {} \/ /\ "tags" \in DOMAIN fields
                     /\ \E n \in 1..Len(fields["tags"].l), want \in a.tag :
                            clean_str(fields["tags"].l[n]) = clean_str(want)
    /\ a.discount = None \/ C1_Number(fields, "discount_percent") >= IntOfStr(a.discount).v
    /\ a.price = None \/ C1_Number(fields, "final") <= IntOfStr(a.price).v
    /\ a.deck = None \/ C1_Number(fields, "deck_compat") >= IntOfStr(a.deck).v
    /\ \A n \in 1..Len(lists) : gameid \in lists[n]

\* C1: when the filter loop completes, an entry of the input wishlist is in
\* the filtered wishlist exactly if it passes every requested test (a test
\* whose flag was not supplied excludes nothing), and the filtered wishlist
\* holds nothing but entries of the input, in no greater number.
C1_FilterEngine ==
    pc = "output" =>
        LET input == HandedBy(run)[1].wishlist
        IN /\ Len(filter_lists) = Len(to_load(args))
           /\ \A n \in 1..Len(input) :
                 (\E m \in 1..Len(wishlist) : wishlist[m] = input[n])
                 <=> C1_Passes(args, filter_lists, input[n].k, input[n].v)
           /\ \A m \in 1..Len(wishlist) : \E n \in 1..Len(input) : wishlist[m] = input[n]
           /\ Len(wishlist) <= Len(input)

\* --type game --price 1500 keeps the game and drops the free DLC
C1_Witness ==
    /\ pc = "output"
    /\ args.type = {<<"g", "a", "m", "e">>}
    /\ args.price = <<"1", "5", "0", "0">>
    /\ HandedBy(run)[1].wishlist = <<[k |-> GameId(1), v |-> FilterGame],
                                    [k |-> GameId(2), v |-> FilterDlc]>>
    /\ wishlist = <<[k |-> GameId(1), v |-> FilterGame]>>

FilterRan == Len(HandedBy(run)) = 1

\* C9 as claimed: whenever tag filtering is requested and the wishlist holds
\* an entry without tags, the filter loop ends the run in a fatal error with
\* no output, whatever the other flags.
C9_MissingTagsFatal ==
    (/\ FilterRan
     /\ args.tag # {}
     /\ \E n \in 1..Len(HandedBy(run)[1].wishlist) :
           "tags" \notin DOMAIN HandedBy(run)[1].wishlist[n].v)
    => (pc = "exited" /\ exitcode = 1 /\ stdout = <<>>)

\* C9 amended: whenever tag filtering is requested and the wishlist holds an
\* entry without tags that passes the platform, type, free, no-free,
\* released, no-released, early and no-early tests, the run ends in a fatal
\* error with no output; an entry without tags that fails one of those tests
\* is excluded without error.
C9_MissingTagsReached ==
    (FilterRan /\ args.tag # {}) =>
        LET input == HandedBy(run)[1].wishlist
            reached == \E n \in 1..Len(input) :
                          /\ "tags" \notin DOMAIN input[n].v
                          /\ C1_PassesFlags(args, input[n].v)
        IN /\ reached => (pc = "exited" /\ exitcode = 1 /\ stdout = <<>>)
           /\ pc = "output" =>
                 \A m \in 1..Len(wishlist) : "tags" \in DOMAIN wishlist[m].v

\* a tag and another flag are requested, and an entry without tags that
\* passes the other flag's test ends the run
C9_Witness ==
    /\ FilterRan
    /\ pc = "exited"
    /\ exitcode = 1
    /\ args.tag = {<<"r", " ", "p">>}
    /\ args.no_free
    /\ HandedBy(run)[1].wishlist = <<[k |-> GameId(1), v |-> FilterGame],
                                    [k |-> GameId(2), v |-> FilterEarly]>>

----------------------------------------------------------------------------
(* The price stage alone, on snapshots of up to MaxPriceGames games *)

BigEntry(n, marked) ==
    IF marked
    THEN [name |-> JStr(StrOfNat(n)), final |-> JInt(n), _price |-> JStr(Fetched)]
    ELSE [name |-> JStr(StrOfNat(n)), final |-> JInt(n)]

BigSnapshot(size, marked) ==
    [n \in 1..size |-> [k |-> StrOfNat(n), v |-> BigEntry(n, marked)]]

\* sizes around the multiples of the batch size
PriceSizes ==
    {n \in 0..MaxPriceGames :
        \/ n <= 2
        \/ n % BATCH_SIZE \in {0, 1, BATCH_SIZE - 1}
        \/ n = MaxPriceGames}

InitPrice ==
    /\ \E r \in BOOLEAN, c \in {"", "us"} :
          Start([DefaultArgs EXCEPT !.load = SnapshotPath, !.cc = c, !.refresh = r])
    /\ \E size \in PriceSizes, marked \in BOOLEAN :
          disk = <<JsonDump(BigSnapshot(size, marked))>>

NextPrice == Validate \/ Load \/ PriceCond \/ PriceBatch

SpecPrice == InitPrice /\ [][NextPrice]_vars

EnricherRan == \E n \in 1..Len(io) : io[n].kind = "cond" /\ io[n].resp.kind = "true"

\* C6: when the Price Enricher has run to completion, every game id of the
\* wishlist has been sent in exactly one batch, no batch holds more than 100
\* ids, every entry carries the _price marker whether or not the response
\* held price data for it, and every entry still has every field it had.
C6_PriceMarking ==
    (pc = "save" /\ EnricherRan) =>
        LET reqs == EventsOf("price")
            before == JsonLoad(disk[1])
        IN /\ \A n \in 1..Len(wishlist) :
                 Cardinality({place \in (1..Len(reqs)) \X (1..100) :
                                 /\ place[2] <= Len(reqs[place[1]].ids)
                                 /\ reqs[place[1]].ids[place[2]] = wishlist[n].k}) = 1
           /\ \A m \in 1..Len(reqs) : Len(reqs[m].ids) \in 1..100
           /\ \A n \in 1..Len(wishlist) : "_price" \in DOMAIN wishlist[n].v
           /\ Len(wishlist) = Len(before)
           /\ \A n \in 1..Len(wishlist) :
                 /\ wishlist[n].k = before[n].k
                 /\ DOMAIN before[n].v \subseteq DOMAIN wishlist[n].v

\* three batches (100, 100 and 1 ids) were sent, and the last game got the
\* marker without price data while the first got both
C6_Witness ==
    /\ pc = "save"
    /\ Len(wishlist) = 201
    /\ Len(EventsOf("price")) = 3
    /\ "currency" \in DOMAIN wishlist[1].v
    /\ "currency" \notin DOMAIN wishlist[201].v
    /\ "_price" \in DOMAIN wishlist[201].v

----------------------------------------------------------------------------
(* The output stage alone: CSV and JSON output of small wishlists *)

SortValues ==
    <<JStr(<<"1", "0">>), JStr(<<"9">>), JStr(<<"a", "b", "c">>), JInt(5), JInt(-5)>>

\* an entry whose name is the n-th sort value, or that has no name
SortEntry(n) ==
    IF n = 0 THEN [added |-> JInt(7)]
    ELSE [added |-> JInt(10 - n), name |-> SortValues[n]]

\* game ids whose order as numbers is not their order as strings
SortId(n) == StrOfNat(1000 \div n)

SortWishlists ==
    UNION {{[n \in 1..len |-> [k |-> SortId(n), v |-> SortEntry(pick[n])]] :
              pick \in [1..len -> 0..Len(SortValues)]} : len \in 0..MaxSortGames}

SortArgs ==
    {[DefaultArgs EXCEPT !.load = SnapshotPath, !.csv = cs, !.sort = st,
                         !.num = nm, !.reverse = rv] :
        cs \in BOOLEAN, st \in {"", "name", "id"}, nm \in BOOLEAN, rv \in BOOLEAN}

\* the state of a --load run without filters when it reaches line 358
InitSort ==
    /\ pc = "output"
    /\ args \in SortArgs
    /\ wanted = NoWanted
    /\ wishlist \in SortWishlists
    /\ page = -1
    /\ i = 0
    /\ filter_lists = <<>>
    /\ disk = <<JsonDump(wishlist)>>
    /\ io = <<Event("load", 0, <<>>, NoResp),
              Event("cond", 0, <<>>, [kind |-> "false", body |-> <<>>]),
              Event("filter", 0, <<>>, NoResp)>>
    /\ stdout = <<>>
    /\ exitcode = -1
    /\ run = 1
    /\ handed = <<[run |-> 1, wishlist |-> wishlist]>>

NextSort == OutputJson \/ OutputCsv

SpecSort == InitSort /\ [][NextSort]_vars

\* the value an entry is sorted by
C10_Value(a, item) ==
    IF a.sort \in {"id", "gameid"} THEN JStr(item.k)
    ELSE IF a.sort = "" THEN Get(item.v, "added", JNone)
    ELSE Get(item.v, a.sort, IF a.num THEN JInt(0) ELSE JStr(<<>>))

C10_AsInteger(a, value) == a.num \/ IsDigitStr(PyStr(value))

\* x <= y: as integers when both values are to be compared as integers, as
\* strings otherwise
C10_Leq(a, x, y) ==
    IF C10_AsInteger(a, x) /\ C10_AsInteger(a, y)
    THEN PyInt(x).v <= PyInt(y).v
    ELSE ~StrLess(PyStr(y), PyStr(x))

\* C10 as claimed: for every filtered wishlist and every choice of --sort,
\* --num and --reverse, CSV mode completes and emits exactly one row per
\* surviving entry, in non-decreasing order of the sort key (non-increasing
\* with --reverse), for every mix of digit and non-digit values and for
\* entries lacking the sort field.
C10_CsvSort ==
    (pc = "exited" /\ args.csv) =>
        /\ exitcode = 0
        /\ Len(stdout) = Len(wishlist)
        /\ \A n \in 1..Len(wishlist) :
              Cardinality({m \in 1..Len(stdout) : stdout[m][1] = JStr(wishlist[n].k)}) = 1
        /\ \A m \in 1..(Len(stdout) - 1) :
              LET x == C10_Value(args, [k |-> stdout[m][1].s,
                                        v |-> Lookup(wishlist, stdout[m][1].s)])
                  y == C10_Value(args, [k |-> stdout[m + 1][1].s,
                                        v |-> Lookup(wishlist, stdout[m + 1][1].s)])
              IN IF args.reverse THEN C10_Leq(args, y, x) ELSE C10_Leq(args, x, y)

=============================================================================
